---- MODULE Spec2Model ----
(***************************************************************************)
(* Model of assume/markets/base_market.py: the MarketRole actor of one     *)
(* market.  The role owns the registered-agent list, the resting order     *)
(* book (all_orders) and the chain of timestamp tasks opening() /          *)
(* clear_market().  Message handlers are synchronous and run to            *)
(* completion; the two coroutines suspend at every awaited send, so they   *)
(* are split there.  Instants are integers (seconds of the virtual clock). *)
(***************************************************************************)
EXTENDS Integers, Sequences, FiniteSets, TLC

VARIABLES
    cfg,                \* self.marketconfig (immutable after construction)
    phase,              \* "constructed" | "running" | "setup_failed"
    now,                \* self.context.current_timestamp
    all_orders,         \* self.all_orders
    registered_agents,  \* self.registered_agents
    tasks,              \* timestamp tasks of the role: armed or suspended coroutines
    sent,               \* every message the role handed to the transport, in order
    history,            \* what the coroutines did, in order (observation only)
    inbound,            \* the latest inbound message (observation only)
    msgs                \* number of inbound messages delivered so far

vars == <<cfg, phase, now, all_orders, registered_agents, tasks, sent, history, inbound, msgs>>

----------------------------------------------------------------------------
\* Bounds of the model.

\* the virtual clock stops advancing here
MaxTime == 3
\* inbound messages (registration, bids, query) delivered in one run
MaxMsgs == 2
\* resting orders the book may hold before further bids are left undelivered
MaxBook == 3
\* tasks the scheduler holds at once
MaxTasks == 8
\* inbound messages delivered in one run of a single trading session
MaxSessionMsgs == 4
\* inbound messages delivered to the role in the book specification
MaxBookMsgs == 3

----------------------------------------------------------------------------
\* Values.

\* None of Python, for the optional configuration entries and order fields
None == "None"
\* rrule without until
NoUntil == -1

\* (sender_addr, sender_id) pairs of the participants
Senders == { <<"h1", "u1">>, <<"h2", "u1">>, <<"h1", "x">> }

Min(a, b) == IF a <= b THEN a ELSE b
Abs(x) == IF x < 0 THEN -x ELSE x
\* math.floor(a / b) and math.ceil(a / b) for a tick b > 0
Floor(a, b) == a \div b
Ceil(a, b) == -((-a) \div b)
Range(s) == { s[i] : i \in 1..Len(s) }

\* rrule.after() returning None, as an instant
NoInstant == -1

----------------------------------------------------------------------------
\* MarketConfig.

\* recurrence rules (dtstart, interval, until) and opening durations
Schedules ==
    { [dtstart |-> 0, interval |-> i, until |-> u, opening_duration |-> d] :
        i \in {2, 3}, u \in {NoUntil, 2, 3}, d \in {1, 2, 3} }
    \cup { [dtstart |-> 1, interval |-> 1, until |-> 0, opening_duration |-> 1] }

\* the rule of a single trading session: the first opening is later than
\* setup and the market is closed between a clearing and the next opening
SessionSchedule == [dtstart |-> 1, interval |-> 2, until |-> NoUntil, opening_duration |-> 1]

\* price / volume bounds and ticks; a tick of 0 is "no tick" (falsy)
Limits ==
    { [minimum_bid_price |-> 0, maximum_bid_price |-> 3, maximum_bid_volume |-> 2,
       price_tick |-> 0, volume_tick |-> 0, additional_fields |-> {}],
      [minimum_bid_price |-> -3, maximum_bid_price |-> 5, maximum_bid_volume |-> 5,
       price_tick |-> 2, volume_tick |-> 2, additional_fields |-> {"link"}],
      [minimum_bid_price |-> -3, maximum_bid_price |-> 5, maximum_bid_volume |-> 5,
       price_tick |-> 2, volume_tick |-> 0, additional_fields |-> {}] }

\* the sink entries of context.data_dict: both, one of them, none
Sinks == [id : BOOLEAN, addr : BOOLEAN]
NoSink == [id |-> FALSE, addr |-> FALSE]
BothSink == [id |-> TRUE, addr |-> TRUE]

\* marketconfig.name of the market, and the name of another market
MarketName == "EOM"
OtherMarket == "OTC"

MarketConfig(s, l, clears, db) ==
    [name |-> MarketName, dtstart |-> s.dtstart, interval |-> s.interval, until |-> s.until,
     opening_duration |-> s.opening_duration,
     minimum_bid_price |-> l.minimum_bid_price,
     maximum_bid_price |-> l.maximum_bid_price,
     maximum_bid_volume |-> l.maximum_bid_volume,
     price_tick |-> l.price_tick, volume_tick |-> l.volume_tick,
     additional_fields |-> l.additional_fields,
     \* eligible_obligations_lambda, as the set of sender ids it accepts
     eligible |-> {"u1"},
     \* whether market_mechanism resets market_agent.all_orders
     mechanism_clears |-> clears,
     \* whether context.data_dict holds output_agent_id, output_agent_addr
     output_agent_id |-> db.id, output_agent_addr |-> db.addr,
     \* marketconfig.supports_get_unmatched
     supports_get_unmatched |-> FALSE]

\* the schedule of the market of the book specification
BookSchedule == [dtstart |-> 2, interval |-> 2, until |-> NoUntil, opening_duration |-> 1]

\* inbound messages the environment delivers in one run of a market
Deliveries(c) ==
    LET schedule == [dtstart |-> c.dtstart, interval |-> c.interval, until |-> c.until,
                     opening_duration |-> c.opening_duration]
    IN  IF schedule = SessionSchedule THEN MaxSessionMsgs
        ELSE IF schedule = BookSchedule THEN MaxBookMsgs
        ELSE MaxMsgs

----------------------------------------------------------------------------
\* Schedule engine: dateutil rrule with dtstart, interval and optional until.

\* opening_hours.after(dt, inc): the first occurrence after dt (at or after
\* dt when inc), NoInstant when the rule has none
RruleAfter(c, dt, inc) ==
    LET from == IF inc THEN dt ELSE dt + 1
        occ  == IF from <= c.dtstart
                   THEN c.dtstart
                   ELSE c.dtstart + Ceil(from - c.dtstart, c.interval) * c.interval
    IN  IF c.until # NoUntil /\ occ > c.until THEN NoInstant ELSE occ

IsOccurrence(c, t) == RruleAfter(c, t, TRUE) = t

\* first delivery offset and duration of the market product template
FirstDelivery == 1
ProductDuration == 1

\* get_available_products(market_products, market_open): one product per opening
get_available_products(market_open) ==
    << [start |-> market_open + FirstDelivery,
        end |-> market_open + FirstDelivery + ProductDuration,
        only_hours |-> None] >>

\* the opening instant a product list was derived from
PeriodOf(products) == products[1].start - FirstDelivery

----------------------------------------------------------------------------
\* Orders.  A raw order is what a participant puts in a bid message:
\*   price     [k: "int" | "float" | "missing", v]   (v the numeric value)
\*   volume    [k: "int" | "float" | "dict" | "missing", v]  (v: the scalar as a
\*             one-element sequence, or the per-product volumes of a block bid)
\*   bid_type  "absent" | None | "SB" | "BB" | "LB"
\*   only_hours "absent" | None | "empty" (a falsy value other than None) | "hours"
\*   agent_id  what the submitter wrote there (NoAgent when nothing)
\*   link      an additional field: "absent" | "empty" | "set"
\*   id        identity of the Python object (message number, position)
\*   at        the instant the role received the order (observation only)

NoAgent == <<"-", "-">>
NoId == <<0, 0>>

Num(k, v) == [k |-> k, v |-> v]

RawOrder(price, volume, bid_type, link) ==
    [price |-> price, volume |-> volume, bid_type |-> bid_type,
     only_hours |-> "absent", agent_id |-> NoAgent, link |-> link, id |-> NoId,
     at |-> 0, start_time |-> NoInstant, end_time |-> NoInstant]

\* an order with the keys of its product: start_time and end_time (NoInstant
\* when the key is absent), only_hours, and the agent_id its submitter wrote
ProductOrder(order, start_time, end_time, only_hours, agent_id) ==
    [order EXCEPT !.start_time = start_time, !.end_time = end_time,
                  !.only_hours = only_hours, !.agent_id = agent_id]

\* "field in order.keys()" for the additional fields
HasField(order, field) == field = "link" /\ order.link # "absent"

\* an upper price bound that is not divided by the tick
MaxPriceRaw(c) == c.maximum_bid_price
\* an upper price bound rounded up to the next tick
MaxPriceCeil(c) ==
    IF c.price_tick # 0 THEN Ceil(c.maximum_bid_price, c.price_tick)
                        ELSE c.maximum_bid_price
\* max_price, min_price, max_volume of handle_orderbook (lines 204-213)
MaxPrice(c) ==
    IF c.price_tick # 0 THEN Floor(c.maximum_bid_price, c.price_tick)
                        ELSE c.maximum_bid_price
MinPrice(c) ==
    IF c.price_tick # 0 THEN Ceil(c.minimum_bid_price, c.price_tick)
                        ELSE c.minimum_bid_price
MaxVolume(c) ==
    IF c.volume_tick # 0 THEN Floor(c.maximum_bid_volume, c.volume_tick)
                         ELSE c.maximum_bid_volume

\* a receipt that keeps the agent_id and the only_hours the submitter wrote
StampAsSubmitted(order, sender, id) ==
    [order EXCEPT !.agent_id = IF @ = NoAgent THEN sender ELSE @,
                  !.id = id,
                  !.at = now]
\* lines 216-218 and 227-229: the assignments made to the order itself
Stamp(order, sender, id) ==
    [order EXCEPT !.agent_id = sender,
                  !.only_hours = IF @ \in {"absent", None, "empty"} THEN None ELSE @,
                  !.id = id,
                  !.at = now]
NormalizeBidType(order) ==
    [order EXCEPT !.bid_type = IF @ = None THEN "SB" ELSE @]

\* lines 219-224; a missing price raises KeyError
PriceInBounds(c, order) ==
    /\ order.price.k # "missing"
    /\ order.price.v <= MaxPrice(c)
    /\ order.price.v >= MinPrice(c)
\* lines 226-233, on the order with its bid_type normalized
BidTypeSupported(order) ==
    order.bid_type # "absent" => order.bid_type \in {"SB", "BB"}
\* a volume check that lets every simple bid through
SimpleVolumeNoCheck(c, order) == TRUE
\* lines 235-240; abs() of a mapping, or a missing volume, raises
SimpleVolumeInBounds(c, order) ==
    order.bid_type \in {"SB", "absent"} =>
        /\ order.volume.k \in {"int", "float"}
        /\ Abs(order.volume.v[1]) <= MaxVolume(c)
\* lines 242-246; .items() of a scalar, or a missing volume, raises
BlockVolumeInBounds(c, order) ==
    order.bid_type = "BB" =>
        /\ order.volume.k = "dict"
        /\ \A i \in 1..Len(order.volume.v) : Abs(order.volume.v[i]) <= MaxVolume(c)
\* lines 247-250: isinstance(.., int)
TickRepresentable(c, order) ==
    /\ c.price_tick # 0 => order.price.k = "int"
    /\ c.volume_tick # 0 => order.volume.k = "int"
\* lines 251-252
FieldsPresent(c, order) ==
    \A field \in c.additional_fields : HasField(order, field)

\* every assertion of the loop body holds for the (stamped, normalized) order
OrderPasses(c, order) ==
    /\ PriceInBounds(c, order)
    /\ BidTypeSupported(order)
    /\ SimpleVolumeInBounds(c, order)
    /\ BlockVolumeInBounds(c, order)
    /\ TickRepresentable(c, order)
    /\ FieldsPresent(c, order)

\* a handler that puts the orders of a valid message in front of the book
ProcessOrdersFront(c, book, orderbook, sender, msgno, pos) ==
    LET stamped == [n \in 1..Len(orderbook) |->
                       NormalizeBidType(Stamp(orderbook[n], sender, <<msgno, pos + n - 1>>))]
        ok == \A n \in 1..Len(orderbook) : OrderPasses(c, stamped[n])
    IN  [book |-> IF ok THEN stamped \o book ELSE book, ok |-> ok]
\* a handler that empties the book when an order of the message fails
ProcessOrdersFlush(c, book, orderbook, sender, msgno, pos) ==
    LET stamped == [n \in 1..Len(orderbook) |->
                       NormalizeBidType(Stamp(orderbook[n], sender, <<msgno, pos + n - 1>>))]
    IN  IF \A n \in 1..Len(orderbook) : OrderPasses(c, stamped[n])
        THEN [book |-> book \o stamped, ok |-> TRUE]
        ELSE [book |-> <<>>, ok |-> FALSE]

\* the for loop of handle_orderbook (lines 215-253): orders are appended one
\* by one until an assertion fails or an exception is raised
RECURSIVE ProcessOrders(_, _, _, _, _, _)
ProcessOrders(c, book, orderbook, sender, msgno, pos) ==
    IF orderbook = <<>>
    THEN [book |-> book, ok |-> TRUE]
    ELSE LET order == NormalizeBidType(Stamp(Head(orderbook), sender, <<msgno, pos>>))
         IN  IF OrderPasses(c, order)
             THEN ProcessOrders(c, Append(book, order), Tail(orderbook), sender, msgno, pos + 1)
             ELSE [book |-> book, ok |-> FALSE]

----------------------------------------------------------------------------
\* Messages handed to the transport.

OpeningMessage(agent, market_open, market_closing, products) ==
    [context |-> "opening", to |-> agent, start |-> market_open,
     stop |-> market_closing, products |-> products]

\* period: the opening instant of the pass that sent it (observation only)
ClearingMessage(agent, accepted, rejected, period) ==
    [context |-> "clearing", to |-> agent, orderbook |-> accepted,
     rejected |-> rejected, period |-> period]

\* a Rejection addressed with receiver_addr and receiver_id swapped
RejectionSwapped(agent) ==
    [context |-> "submit_bids", to |-> <<agent[2], agent[1]>>, message |-> "Rejected"]
RejectionMessage(agent) ==
    [context |-> "submit_bids", to |-> agent, message |-> "Rejected"]

StoreMessage(type, data, period) ==
    [context |-> "write_results", to |-> <<"db", "db">>, type |-> type,
     data |-> data, period |-> period]

\* lines 295-304: the reply to a query.  live: available_orders is the list
\* object self.all_orders itself (line 293), not a copy
UnmatchedMessage(agent, available_orders, live) ==
    [context |-> "get_unmatched", to |-> agent,
     available_orders |-> available_orders, live |-> live]

NoMessage == [context |-> "none"]

----------------------------------------------------------------------------
\* Tasks of the role's scheduler.  pc is "armed" for a timestamp task that has
\* not started, otherwise the await at which the coroutine is suspended.

Task(kind, ts, products) ==
    [kind |-> kind, ts |-> ts, products |-> products, pc |-> "armed", i |-> 0,
     accepted |-> <<>>, rejected |-> <<>>, meta |-> <<>>, msg |-> NoMessage]

\* schedule_instant_acl_message: the send runs as a task of its own
InstantTask(ts, msg) ==
    [kind |-> "instant_message", ts |-> ts, products |-> <<>>, pc |-> "armed",
     i |-> 0, accepted |-> <<>>, rejected |-> <<>>, meta |-> <<>>, msg |-> msg]

RemoveAt(s, k) == [j \in 1..(Len(s) - 1) |-> IF j < k THEN s[j] ELSE s[j + 1]]
ReplaceAt(s, k, e) == [s EXCEPT ![k] = e]

\* observation records
Event(ev, open) ==
    [ev |-> ev, open |-> open, at |-> now, book |-> <<>>, accepted |-> <<>>,
     rejected |-> <<>>, nreg |-> Len(registered_agents)]


NoInbound ==
    [kind |-> "none", sender |-> NoAgent, orderbook |-> <<>>, order |-> <<>>,
     market |-> MarketName]
Inbound(kind, sender) ==
    [kind |-> kind, sender |-> sender, orderbook |-> <<>>, order |-> <<>>,
     market |-> MarketName]
\* a bid message that reached handle_orderbook, with content["orderbook"]
InboundBids(sender, orderbook) ==
    [kind |-> "orderbook", sender |-> sender, orderbook |-> orderbook, order |-> <<>>,
     market |-> MarketName]
\* a query, with content.get("order"): <<>> or the one requested key
InboundQuery(sender, order) ==
    [kind |-> "get_unmatched", sender |-> sender, orderbook |-> <<>>, order |-> order,
     market |-> MarketName]
\* a message whose content names another market
InboundElsewhere(kind, sender, market) ==
    [Inbound(kind, sender) EXCEPT !.market = market]

\* The replies not sent yet whose content is the list self.all_orders see the
\* list as it is when they are sent: appends made to it meanwhile (line 253) ...
Shared(ts, book) ==
    [ k \in 1..Len(ts) |->
        IF ts[k].msg.context = "get_unmatched" /\ ts[k].msg.live
        THEN [ts[k] EXCEPT !.msg.available_orders = book]
        ELSE ts[k] ]
\* ... until the matching function binds self.all_orders to a new list
Detached(ts) ==
    [ k \in 1..Len(ts) |->
        IF ts[k].msg.context = "get_unmatched" /\ cfg.mechanism_clears
        THEN [ts[k] EXCEPT !.msg.live = FALSE]
        ELSE ts[k] ]

----------------------------------------------------------------------------
\* Construction and setup.

InitWith(configs) ==
    /\ cfg \in configs
    /\ phase = "constructed"
    /\ now = 0
    /\ all_orders = <<>>
    /\ registered_agents = <<>>
    /\ tasks = <<>>
    /\ sent = <<>>
    /\ history = <<>>
    /\ inbound = NoInbound
    /\ msgs = 0

\* setup(), lines 74-119.  next_opening.utctimetuple() raises when after()
\* returned None, after the subscriptions were made.
setup ==
    /\ phase = "constructed"
    /\ LET next_opening == RruleAfter(cfg, now, TRUE)
       IN  IF next_opening = NoInstant
           THEN /\ phase' = "setup_failed"
                /\ tasks' = tasks
           ELSE /\ phase' = "running"
                /\ tasks' = Append(tasks, Task("opening", next_opening, <<>>))
    /\ UNCHANGED <<cfg, now, all_orders, registered_agents, sent, history, inbound, msgs>>

----------------------------------------------------------------------------
\* Message handlers (synchronous: one message is handled to completion).

\* a registration that keeps at most one entry per participant
register_once(sender) ==
    /\ phase = "running"
    /\ msgs < Deliveries(cfg)
    /\ registered_agents' =
           IF sender[2] \in cfg.eligible /\ sender \notin Range(registered_agents)
           THEN Append(registered_agents, sender)
           ELSE registered_agents
    /\ inbound' = Inbound("registration", sender)
    /\ msgs' = msgs + 1
    /\ UNCHANGED <<cfg, phase, now, all_orders, tasks, sent, history>>
\* accept_registration always holds for a registration message of this market;
\* handle_registration, lines 172-186
handle_registration(sender) ==
    /\ phase = "running"
    /\ msgs < Deliveries(cfg)
    /\ registered_agents' =
           IF sender[2] \in cfg.eligible
           THEN Append(registered_agents, sender)
           ELSE registered_agents
    /\ inbound' = Inbound("registration", sender)
    /\ msgs' = msgs + 1
    /\ UNCHANGED <<cfg, phase, now, all_orders, tasks, sent, history>>

\* a filter that lets bids through only while a period is open
accept_while_open(sender) ==
    /\ sender \in Range(registered_agents)
    /\ \E k \in 1..Len(tasks) : tasks[k].kind = "clear_market" /\ tasks[k].pc = "armed"
\* accept_orderbook, lines 80-88, for a bid message naming this market
accept_orderbook(sender) == sender \in Range(registered_agents)

\* handle_orderbook, lines 188-265
handle_orderbook(sender, orderbook) ==
    /\ phase = "running"
    /\ msgs < Deliveries(cfg)
    /\ Len(all_orders) + Len(orderbook) <= MaxBook
    /\ accept_orderbook(sender)
    /\ LET r == ProcessOrders(cfg, all_orders, orderbook, sender, msgs + 1, 1)
       IN  /\ all_orders' = r.book
           /\ tasks' = IF r.ok THEN Shared(tasks, r.book)
                       ELSE Append(Shared(tasks, r.book),
                                   InstantTask(now, RejectionMessage(sender)))
    /\ inbound' = InboundBids(sender, orderbook)
    /\ msgs' = msgs + 1
    /\ UNCHANGED <<cfg, phase, now, registered_agents, sent, history>>

\* a bid message that accept_orderbook filters out reaches no handler
unaccepted_orderbook(sender, orderbook) ==
    /\ phase = "running"
    /\ msgs < Deliveries(cfg)
    /\ ~accept_orderbook(sender)
    /\ inbound' = Inbound("orderbook", sender)
    /\ msgs' = msgs + 1
    /\ UNCHANGED <<cfg, phase, now, all_orders, registered_agents, tasks, sent, history>>

\* accept_get_unmatched (lines 98-104) holds for a query naming this market;
\* lines 111-114: the handler is subscribed only on a market that supports it
subscribed_always == TRUE
subscribed_get_unmatched == cfg.supports_get_unmatched

\* order_matches_req, lines 283-288: the comparisons are made left to right
\* and stop at the first that fails; reading a key that the order or the
\* request does not have raises KeyError
KeyMissing(o, order) ==
    \/ o.start_time = NoInstant \/ order.start_time = NoInstant
    \/ /\ o.start_time = order.start_time
       /\ \/ o.end_time = NoInstant \/ order.end_time = NoInstant
          \/ /\ o.end_time = order.end_time
             /\ (o.only_hours = "absent" \/ order.only_hours = "absent")
order_matches_req(o, order) ==
    /\ o.start_time = order.start_time
    /\ o.end_time = order.end_time
    /\ o.only_hours = order.only_hours

\* handle_get_unmatched, lines 267-304.  order: content.get("order"), <<>>
\* when the request has none (or an empty one), otherwise the one key record.
\* An exception of the filter leaves the handler before the reply is scheduled.
handle_get_unmatched(sender, order) ==
    /\ phase = "running"
    /\ msgs < Deliveries(cfg)
    /\ subscribed_get_unmatched
    /\ tasks' =
          IF order # <<>>
          THEN IF \E i \in 1..Len(all_orders) : KeyMissing(all_orders[i], order[1])
               THEN tasks
               ELSE Append(tasks, InstantTask(now, UnmatchedMessage(sender,
                        SelectSeq(all_orders, LAMBDA o : order_matches_req(o, order[1])),
                        FALSE)))
          ELSE Append(tasks, InstantTask(now, UnmatchedMessage(sender, all_orders, TRUE)))
    /\ inbound' = InboundQuery(sender, order)
    /\ msgs' = msgs + 1
    /\ UNCHANGED <<cfg, phase, now, all_orders, registered_agents, sent, history>>

\* a query on a market without the subscription reaches no handler
unsubscribed_get_unmatched(sender, order) ==
    /\ phase = "running"
    /\ msgs < Deliveries(cfg)
    /\ ~subscribed_get_unmatched
    /\ inbound' = InboundQuery(sender, order)
    /\ msgs' = msgs + 1
    /\ UNCHANGED <<cfg, phase, now, all_orders, registered_agents, tasks, sent, history>>

\* content.get("market") == self.marketconfig.name, the condition that the
\* three filters accept_orderbook, accept_registration and accept_get_unmatched
\* share (lines 86, 95, 103)
names_any_market(market) == TRUE
names_this_market(market) == market = cfg.name

\* A message of one of the three kinds whose content names market is offered
\* to the subscriptions of the role (lines 106-114): it reaches the handler of
\* its kind when the filter of that handler accepts it and no handler otherwise.
message_for(market, sender, kind, batches, filters) ==
    IF names_this_market(market)
    THEN \/ kind = "registration" /\ handle_registration(sender)
         \/ /\ kind = "orderbook"
            /\ \E orderbook \in batches :
                  \/ handle_orderbook(sender, orderbook)
                  \/ unaccepted_orderbook(sender, orderbook)
         \/ /\ kind = "get_unmatched"
            /\ \E order \in filters :
                  \/ handle_get_unmatched(sender, order)
                  \/ unsubscribed_get_unmatched(sender, order)
    ELSE /\ phase = "running"
         /\ msgs < Deliveries(cfg)
         /\ inbound' = InboundElsewhere(kind, sender, market)
         /\ msgs' = msgs + 1
         /\ UNCHANGED <<cfg, phase, now, all_orders, registered_agents, tasks, sent, history>>

\* the send of schedule_instant_acl_message, run by the scheduler
instant_send(k) ==
    /\ k \in 1..Len(tasks)
    /\ tasks[k].kind = "instant_message"
    /\ sent' = Append(sent, tasks[k].msg)
    /\ tasks' = RemoveAt(tasks, k)
    /\ UNCHANGED <<cfg, phase, now, all_orders, registered_agents, history, inbound, msgs>>

----------------------------------------------------------------------------
\* opening(), lines 121-170.  The coroutine suspends at each awaited
\* send_acl_message of the loop over registered_agents.

\* an opening that arms no closing timer
ArmNothing(products, market_open) == <<>>
\* lines 157-159: schedule closing this market
ArmClosing(products, market_open) ==
    << Task("clear_market", market_open + cfg.opening_duration, products) >>
\* an opening that arms the opening timer again at its own instant
ArmSameOpening(market_open) == << Task("opening", market_open, <<>>) >>
\* an opening that arms the following interval whatever the rule's end bound
ArmNextAlways(market_open) == << Task("opening", market_open + cfg.interval, <<>>) >>
\* lines 161-170: schedule the next opening too
ArmNextOpening(market_open) ==
    LET next_opening == RruleAfter(cfg, market_open, FALSE)
    IN  IF next_opening # NoInstant
        THEN << Task("opening", next_opening, <<>>) >>
        ELSE <<>>

\* an opening that never checks the end bound
SuppressNever(market_closing) == FALSE
\* lines 132-135: the opening is not to happen
Suppressed(market_closing) ==
    cfg.until # NoUntil /\ market_closing > cfg.until

\* opening() from the iteration of the loop that follows i sends, up to the
\* next await or to the end of the coroutine; t is the task with its locals
OpeningRun(k, t, i) ==
    IF i < Len(registered_agents)
    THEN /\ sent' = Append(sent, OpeningMessage(registered_agents[i + 1], t.ts,
                                   t.ts + cfg.opening_duration, t.products))
         /\ tasks' = ReplaceAt(tasks, k, [t EXCEPT !.pc = "notify", !.i = i + 1])
    ELSE /\ sent' = sent
         /\ tasks' = RemoveAt(tasks, k) \o ArmClosing(t.products, t.ts)
                                        \o ArmNextOpening(t.ts)

\* the opening timer fires
opening_start(k) ==
    /\ phase = "running"
    /\ k \in 1..Len(tasks)
    /\ tasks[k].kind = "opening" /\ tasks[k].pc = "armed" /\ tasks[k].ts <= now
    /\ LET market_open == now
           market_closing == market_open + cfg.opening_duration
           products == get_available_products(market_open)
           t == [tasks[k] EXCEPT !.ts = market_open, !.products = products]
       IN  IF Suppressed(market_closing)
           THEN /\ tasks' = RemoveAt(tasks, k)
                /\ sent' = sent
                /\ history' = Append(history, Event("suppressed", market_open))
           ELSE /\ OpeningRun(k, t, 0)
                /\ history' = Append(history, Event("opened", market_open))
    /\ UNCHANGED <<cfg, phase, now, all_orders, registered_agents, inbound, msgs>>

\* the awaited send of an opening notice returns
opening_resume(k) ==
    /\ k \in 1..Len(tasks)
    /\ tasks[k].kind = "opening" /\ tasks[k].pc = "notify"
    /\ OpeningRun(k, tasks[k], tasks[k].i)
    /\ UNCHANGED <<cfg, phase, now, all_orders, registered_agents, history, inbound, msgs>>

----------------------------------------------------------------------------
\* clear_market(), lines 306-365.

\* the matching function (marketconfig.market_mechanism): any assignment of
\* the resting orders to the accepted book, the rejected book, both or
\* neither, and one metadata record per product
Verdicts == {"accepted", "rejected", "neither", "both"}

RECURSIVE Pick(_, _, _, _)
Pick(book, verdict, which, i) ==
    IF i > Len(book) THEN <<>>
    ELSE (IF verdict[i] \in which THEN <<book[i]>> ELSE <<>>)
         \o Pick(book, verdict, which, i + 1)

market_mechanism(book, market_products) ==
    { [accepted |-> Pick(book, verdict, {"accepted", "both"}, 1),
       rejected |-> Pick(book, verdict, {"rejected", "both"}, 1),
       meta |-> [j \in 1..Len(market_products) |->
                    [product_start |-> market_products[j].start]]] :
        verdict \in [1..Len(book) -> Verdicts] }

\* the order of the (sender_addr, sender_id) tuples under Python's tuple comparison
SenderOrder == << <<"h1", "u1">>, <<"h1", "x">>, <<"h2", "u1">> >>

\* orderbook.sort(key=itemgetter("agent_id")): a stable sort
RECURSIVE SortFrom(_, _)
SortFrom(book, r) ==
    IF r > Len(SenderOrder) THEN <<>>
    ELSE SelectSeq(book, LAMBDA o : o.agent_id = SenderOrder[r]) \o SortFrom(book, r + 1)
SortByAgent(book) == SortFrom(book, 1)

\* a notice that carries the whole book
AnyBids(book, agent) == book
\* a fan-out that keeps the first order of each participant only
FirstBidOf(book, agent) ==
    LET bids == SelectSeq(book, LAMBDA o : o.agent_id = agent)
    IN  IF bids = <<>> THEN <<>> ELSE << bids[1] >>
\* {agent: list(bids) for agent, bids in groupby(..)}.get(agent, [])
BidsOf(book, agent) == SelectSeq(book, LAMBDA o : o.agent_id = agent)

\* lines 356-361
WithMarketId(meta) ==
    [j \in 1..Len(meta) |->
        [product_start |-> meta[j].product_start, time |-> meta[j].product_start]]

\* what the pass leaves in self.all_orders once the matching function returned
BookAfterMechanism(book) == IF cfg.mechanism_clears THEN <<>> ELSE book

\* a loop over the participants that were registered when the period opened
ReceiversAtOpening(t) ==
    LET opened == { i \in 1..Len(history) :
                      history[i].ev = "opened" /\ history[i].open = PeriodOf(t.products) }
    IN  SubSeq(registered_agents, 1, history[CHOOSE i \in opened : TRUE].nreg)
\* a loop over the participants that have an accepted or a rejected order
ReceiversWithBids(t) ==
    SelectSeq(registered_agents,
              LAMBDA a : BidsOf(t.accepted, a) # <<>> \/ BidsOf(t.rejected, a) # <<>>)
\* line 334: the list the loop of clear_market iterates, as it is now
NoticeReceivers(t) == registered_agents

\* a store that sends when either entry is there
SinkEither == cfg.output_agent_id \/ cfg.output_agent_addr
\* lines 381-383 and 404-406: if db_aid and db_addr
SinkConfigured == cfg.output_agent_id /\ cfg.output_agent_addr

\* clear_market from the await at which it is suspended (pc, after i sends
\* of the loop) up to the next await or to its end: the message handed to the
\* transport and the task as it is suspended (none when the coroutine ended)
ClearRun(t, pc, i) ==
    IF pc = "notify" /\ i < Len(NoticeReceivers(t))
    THEN LET agent == NoticeReceivers(t)[i + 1]
         IN  [out |-> << ClearingMessage(agent, BidsOf(t.accepted, agent),
                             BidsOf(t.rejected, agent), PeriodOf(t.products)) >>,
              task |-> << [t EXCEPT !.pc = "notify", !.i = i + 1] >>]
    ELSE IF pc = "notify" /\ SinkConfigured
    THEN [out |-> << StoreMessage("store_order_book", t.accepted, PeriodOf(t.products)) >>,
          task |-> << [t EXCEPT !.pc = "store_order_book"] >>]
    ELSE IF pc = "store_order_book"
    THEN [out |-> << StoreMessage("store_market_results", WithMarketId(t.meta),
                                  PeriodOf(t.products)) >>,
          task |-> << [t EXCEPT !.pc = "store_market_results"] >>]
    ELSE [out |-> <<>>, task |-> <<>>]

ClearApply(ts, k, r, h, period) ==
    /\ sent' = sent \o r.out
    /\ tasks' = IF r.task = <<>> THEN RemoveAt(ts, k) ELSE ReplaceAt(ts, k, r.task[1])
    /\ history' = IF r.task = <<>> THEN Append(h, Event("cleared_done", period)) ELSE h

\* the closing timer fires: lines 318-333, then the loop up to its first await
clear_market_start(k) ==
    /\ phase = "running"
    /\ k \in 1..Len(tasks)
    /\ tasks[k].kind = "clear_market" /\ tasks[k].pc = "armed" /\ tasks[k].ts <= now
    /\ \E result \in market_mechanism(all_orders, tasks[k].products) :
         LET accepted_orderbook == SortByAgent(result.accepted)
             rejected_orderbook == SortByAgent(result.rejected)
             t == [tasks[k] EXCEPT !.accepted = accepted_orderbook,
                                   !.rejected = rejected_orderbook,
                                   !.meta = result.meta]
             invoked == [Event("cleared", PeriodOf(t.products)) EXCEPT
                            !.book = all_orders,
                            !.accepted = accepted_orderbook,
                            !.rejected = rejected_orderbook]
         IN  /\ all_orders' = BookAfterMechanism(all_orders)
             /\ ClearApply(Detached(tasks), k, ClearRun(t, "notify", 0),
                           Append(history, invoked), PeriodOf(t.products))
    /\ UNCHANGED <<cfg, phase, now, registered_agents, inbound, msgs>>

\* an awaited send of clear_market returns
clear_market_resume(k) ==
    /\ k \in 1..Len(tasks)
    /\ tasks[k].kind = "clear_market" /\ tasks[k].pc # "armed"
    /\ ClearApply(tasks, k, ClearRun(tasks[k], tasks[k].pc, tasks[k].i), history,
                  PeriodOf(tasks[k].products))
    /\ UNCHANGED <<cfg, phase, now, all_orders, registered_agents, inbound, msgs>>

----------------------------------------------------------------------------
\* The virtual clock: it advances once every task has ended or sleeps until
\* a later instant.

Sleeping(t) == t.pc = "armed" /\ t.kind # "instant_message" /\ t.ts > now

\* the instant of the next timestamp task
RECURSIVE MinTs(_)
MinTs(ts) == IF Len(ts) = 1 THEN ts[1].ts ELSE Min(ts[1].ts, MinTs(Tail(ts)))

Tick ==
    /\ phase = "running"
    /\ tasks # <<>>
    /\ \A k \in 1..Len(tasks) : Sleeping(tasks[k])
    /\ MinTs(tasks) <= MaxTime
    /\ now' = MinTs(tasks)
    /\ UNCHANGED <<cfg, phase, all_orders, registered_agents, tasks, sent, history, inbound, msgs>>

----------------------------------------------------------------------------
\* Specifications.

\* bid messages of the lifecycle specification: an order within the bounds of
\* the first Limits entry, and one above its maximum price
GoodOrder == RawOrder(Num("int", 1), Num("int", <<1>>), "SB", "absent")
BadOrder == RawOrder(Num("int", 4), Num("int", <<1>>), "SB", "absent")
Batches == { <<GoodOrder>>, <<BadOrder>>, <<GoodOrder, BadOrder>>, <<GoodOrder, GoodOrder>> }

SimpleLimits == CHOOSE l \in Limits : l.price_tick = 0 /\ l.volume_tick = 0

Configs ==
    { MarketConfig(s, SimpleLimits, clears, db) :
        s \in Schedules, clears \in BOOLEAN, db \in {NoSink, BothSink} }

Init == InitWith(Configs)

Scheduler ==
    \E k \in 1..MaxTasks :
       \/ opening_start(k)
       \/ opening_resume(k)
       \/ clear_market_start(k)
       \/ clear_market_resume(k)
       \/ instant_send(k)

\* the bid messages that can still be delivered: those of batches while the
\* role runs and the number of deliveries is below its bound, none afterwards
Deliverable(batches) ==
    IF phase = "running" /\ msgs < Deliveries(cfg) THEN batches ELSE {}

Messages(batches) ==
    \E sender \in Senders :
       \/ handle_registration(sender)
       \/ \E orderbook \in Deliverable(batches) :
             \/ handle_orderbook(sender, orderbook)
             \/ unaccepted_orderbook(sender, orderbook)

Next == setup \/ Tick \/ Scheduler \/ Messages(Batches)

Spec == Init /\ [][Next]_vars

\* the event loop runs every task that is ready, and the clock is advanced
\* once all tasks sleep
FairSpec == Spec /\ WF_vars(Tick) /\ WF_vars(Scheduler)

\* the scheduler never holds more tasks than the model provides for
TasksFit == Len(tasks) < MaxTasks

\* One market whose first opening is later than setup and that is closed
\* between a clearing and the next opening, with every sink configuration and
\* room for several participants' messages.
SessionBatches == { <<GoodOrder>>, <<BadOrder>> }

SessionConfigs ==
    { MarketConfig(SessionSchedule, SimpleLimits, clears, db) : clears \in BOOLEAN, db \in Sinks }

SessionInit == InitWith(SessionConfigs)

SessionNext == setup \/ Tick \/ Scheduler \/ Messages(SessionBatches)

SessionSpec == SessionInit /\ [][SessionNext]_vars

\* The handlers alone, over a wider range of orders and of price / volume
\* limits: the role is set up and only messages arrive.
Prices ==
    { Num("int", v) : v \in {-2, 2, 3, 4} } \cup { Num("float", 2), Num("missing", 0) }
Volumes ==
    { Num("int", <<v>>) : v \in {-6, 2, 3} }
    \cup { Num("float", <<2>>), Num("dict", <<2, -2>>), Num("dict", <<2, 6>>),
           Num("missing", <<>>) }
BidTypes == {"absent", None, "SB", "BB", "LB"}
RawOrders ==
    { RawOrder(p, v, b, l) :
        p \in Prices, v \in Volumes, b \in BidTypes, l \in {"absent", "set"} }
\* second orders of a two-order message
SecondOrders ==
    { RawOrder(p, v, "SB", "set") :
        p \in {Num("int", 2), Num("int", 4)}, v \in {Num("int", <<2>>), Num("dict", <<2, -2>>)} }
OrderBatches ==
    { <<o>> : o \in RawOrders } \cup { <<o1, o2>> : o1 \in RawOrders, o2 \in SecondOrders }

OrderConfigs ==
    { MarketConfig([dtstart |-> 0, interval |-> 2, until |-> NoUntil, opening_duration |-> 1],
                   l, FALSE, NoSink) : l \in Limits }

OrderInit == InitWith(OrderConfigs)

OrderNext ==
    \/ setup
    \/ \E k \in 1..MaxTasks : instant_send(k)
    \/ Messages(OrderBatches)

OrderSpec == OrderInit /\ [][OrderNext]_vars

\* The handlers and the query, on the market of the tick scenario (prices
\* from 0 to 100 in ticks of 5), with and without a required additional field
\* and with and without the query subscription.  The orders carry the keys of
\* their product.
BookLimits ==
    { [minimum_bid_price |-> 0, maximum_bid_price |-> 100, maximum_bid_volume |-> 100,
       price_tick |-> 5, volume_tick |-> 0, additional_fields |-> fields] :
        fields \in { {}, {"link"} } }

BookConfigs ==
    { [MarketConfig(BookSchedule, l, FALSE, NoSink) EXCEPT !.supports_get_unmatched = b] :
        l \in BookLimits, b \in BOOLEAN }

BookOrder(price, link) == RawOrder(Num("int", price), Num("int", <<10>>), "SB", link)
\* a price of 10 ticks, and the keys of the product from 1 to 2
Order10 == ProductOrder(BookOrder(10, "set"), 1, 2, "absent", NoAgent)
\* a price that is no multiple of the tick, an only_hours value, and the
\* identity of another participant written by the submitter
Order12 == ProductOrder(BookOrder(12, "set"), 1, 2, "hours", <<"h2", "u1">>)
\* the price of the tick scenario
Order52 == ProductOrder(BookOrder(52, "set"), 2, 3, None, NoAgent)
\* an additional field and an only_hours that are present but empty
OrderEmpty == ProductOrder(BookOrder(10, "empty"), 2, 3, "empty", NoAgent)
\* an order without start_time, end_time and additional field
OrderBare == BookOrder(10, "absent")
\* the start of Order10 with another end
OrderLong == ProductOrder(BookOrder(10, "set"), 1, 3, None, NoAgent)

BookBatches ==
    { <<Order10>>, <<Order12>>, <<Order52>>, <<OrderEmpty>>, <<OrderBare>>, <<OrderLong>>,
      <<Order10, Order12>>, <<Order12, Order10>>, <<Order10, Order52>> }

\* content.get("order") of a query: none, or one key
Key(start_time, end_time, only_hours) ==
    [start_time |-> start_time, end_time |-> end_time, only_hours |-> only_hours]
BookFilters ==
    { <<>>, <<Key(1, 2, None)>>, <<Key(1, 2, "hours")>>, <<Key(1, 2, "absent")>>,
      <<Key(2, 3, None)>> }

Queries(filters) ==
    \E sender \in Senders, order \in filters :
       \/ handle_get_unmatched(sender, order)
       \/ unsubscribed_get_unmatched(sender, order)

BookInit == InitWith(BookConfigs)

BookNext ==
    \/ setup
    \/ \E k \in 1..MaxTasks : instant_send(k)
    \/ Messages(BookBatches)
    \/ Queries(BookFilters)

BookSpec == BookInit /\ [][BookNext]_vars

\* The same market among others: every message names a market, this one or
\* another.
Markets == {MarketName, OtherMarket}
MessageKinds == {"registration", "orderbook", "get_unmatched"}

MarketsNext ==
    \/ setup
    \/ \E k \in 1..MaxTasks : instant_send(k)
    \/ \E market \in Markets, sender \in Senders, kind \in MessageKinds :
          message_for(market, sender, kind, BookBatches, BookFilters)

MarketsSpec == BookInit /\ [][MarketsNext]_vars

----------------------------------------------------------------------------
\* Claims.

\* whether every order of a bid message passes validation
AllPass(sender, orderbook) ==
    ProcessOrders(cfg, <<>>, orderbook, sender, 0, 1).ok

IsRejection(m, agent) == m.context = "submit_bids" /\ m.to = agent

\* Rejection notices for an agent, sent or scheduled
RejectionsTo(agent) ==
    Cardinality({ i \in 1..Len(sent) : IsRejection(sent[i], agent) })
    + Cardinality({ k \in 1..Len(tasks) :
                      tasks[k].kind = "instant_message" /\ IsRejection(tasks[k].msg, agent) })

\* C1: handle_orderbook is atomic per message: when an order of a bid message
\* fails validation, the resting book after the handler equals the book before.
C1_AtomicSubmission ==
    [][\A sender \in Senders, orderbook \in Batches :
          (handle_orderbook(sender, orderbook) /\ ~AllPass(sender, orderbook))
              => all_orders' = all_orders]_vars

Cleared(i) == i \in 1..Len(history) /\ history[i].ev = "cleared"
PassDone(period) ==
    \E j \in 1..Len(history) : history[j].ev = "cleared_done" /\ history[j].open = period

\* C2: orders are cleared once: the orders presented to the matching function
\* by a completed pass rest no longer, and no order is presented to the
\* matching function by two passes.
C2_ClearedOnce ==
    /\ \A i \in 1..Len(history) :
          (Cleared(i) /\ PassDone(history[i].open))
              => Range(history[i].book) \cap Range(all_orders) = {}
    /\ \A i, j \in 1..Len(history) :
          (Cleared(i) /\ Cleared(j) /\ i < j)
              => Range(history[i].book) \cap Range(history[j].book) = {}

ClearingNotices(period, agent) ==
    Cardinality({ i \in 1..Len(sent) :
                    /\ sent[i].context = "clearing"
                    /\ sent[i].period = period
                    /\ sent[i].to = agent })

\* C3: a completed clearing pass, during which no registration arrived, has
\* sent exactly one clearing notice to every participant registered at the pass.
C3_ExactlyOneNotice ==
    \A i, j \in 1..Len(history) :
       (/\ Cleared(i)
        /\ history[j].ev = "cleared_done" /\ history[j].open = history[i].open
        /\ history[j].nreg = history[i].nreg)
           => \A n \in 1..history[i].nreg :
                 ClearingNotices(history[i].open, registered_agents[n]) = 1

\* C4: a bid message from a sender that is not registered leaves the resting
\* book unchanged and has a Rejection notice sent back to that sender.
C4_UnregisteredRejected ==
    [][\A sender \in Senders :
          (/\ msgs' = msgs + 1
           /\ inbound' = Inbound("orderbook", sender)
           /\ sender \notin Range(registered_agents))
              => /\ all_orders' = all_orders
                 /\ RejectionsTo(sender)' = RejectionsTo(sender) + 1]_vars

\* an order's price and volumes in currency / energy units: with a tick the
\* order carries tick counts
PriceUnits(order) == order.price.v * (IF cfg.price_tick # 0 THEN cfg.price_tick ELSE 1)
VolumeUnits(v) == Abs(v) * (IF cfg.volume_tick # 0 THEN cfg.volume_tick ELSE 1)

\* C5: every order of the resting book has its price within
\* [minimum_bid_price, maximum_bid_price] and its volume (a simple bid) or
\* every per-product volume (a block bid) within maximum_bid_volume in
\* magnitude, the bounds being those of the tick-adjusted comparison.
C5_BookWithinBounds ==
    \A n \in 1..Len(all_orders) :
       LET order == all_orders[n]
       IN  /\ order.price.k # "missing"
           /\ PriceUnits(order) >= cfg.minimum_bid_price
           /\ PriceUnits(order) <= cfg.maximum_bid_price
           /\ order.volume.k # "missing"
           /\ \A j \in 1..Len(order.volume.v) :
                 VolumeUnits(order.volume.v[j]) <= cfg.maximum_bid_volume

\* a book holding a simple bid and a block bid, both with a nonzero volume, on
\* a market with a price tick
C5_Witness ==
    /\ cfg.price_tick # 0
    /\ \E n, m \in 1..Len(all_orders) :
          /\ all_orders[n].bid_type = "BB" /\ all_orders[n].volume.k = "dict"
          /\ all_orders[m].bid_type \in {"SB", "absent"}
          /\ all_orders[m].volume.v[1] # 0

Count(book, order) == Cardinality({ n \in 1..Len(book) : book[n] = order })

\* accepted and rejected partition book: every order of book is in exactly
\* one of them
IsPartition(book, accepted, rejected) ==
    \A order \in Range(book) : Count(accepted, order) + Count(rejected, order) = 1

\* a clearing notice or a sink message of the pass of this period was sent
Distributed(period) ==
    \E n \in 1..Len(sent) :
       sent[n].context \in {"clearing", "write_results"} /\ sent[n].period = period

\* C6: a pass whose matching result is not a partition of the resting book
\* distributes nothing: whenever a clearing notice or a sink message of a pass
\* was sent, the accepted and rejected books of that pass partition the book
\* that rested when the matching function was invoked.
C6_CoverageValidated ==
    \A i \in 1..Len(history) :
       (Cleared(i) /\ Distributed(history[i].open))
           => IsPartition(history[i].book, history[i].accepted, history[i].rejected)

----------------------------------------------------------------------------
\* The timer chain.

OpeningFired(i) == i \in 1..Len(history) /\ history[i].ev \in {"opened", "suppressed"}
Opened(i) == i \in 1..Len(history) /\ history[i].ev = "opened"
IsSuppressed(i) == i \in 1..Len(history) /\ history[i].ev = "suppressed"

OpeningTasks == { k \in 1..Len(tasks) : tasks[k].kind = "opening" }
\* closing timers armed for the period opened at p, not yet fired
ClosingTimers(p) ==
    { k \in 1..Len(tasks) :
        /\ tasks[k].kind = "clear_market" /\ tasks[k].pc = "armed"
        /\ PeriodOf(tasks[k].products) = p }
ClearedEvents(p) == { i \in 1..Len(history) : Cleared(i) /\ history[i].open = p }
\* opening() of the period opened at p is still sending its notices
OpeningUnderWay(p) ==
    \E k \in OpeningTasks : tasks[k].pc = "notify" /\ tasks[k].ts = p

\* C7: exactly once per period.  Opening instants are strictly increasing and
\* are occurrences of the rule; once opening() of a non-suppressed period has
\* ended, that period has exactly one closing timer (armed at opening +
\* open-duration with the period's products) or one clearing pass, never two;
\* at most one opening timer exists, armed for the occurrence that follows
\* the latest opening.
C7_ExactlyOncePerPeriod ==
    /\ \A i, j \in 1..Len(history) :
          (OpeningFired(i) /\ OpeningFired(j) /\ i < j) => history[i].open < history[j].open
    /\ \A i \in 1..Len(history) :
          OpeningFired(i) =>
             /\ history[i].open >= cfg.dtstart
             /\ (history[i].open - cfg.dtstart) % cfg.interval = 0
    /\ \A i \in 1..Len(history) :
          Opened(i) =>
             LET p == history[i].open
             IN  /\ Cardinality(ClosingTimers(p)) + Cardinality(ClearedEvents(p))
                       = (IF OpeningUnderWay(p) THEN 0 ELSE 1)
                 /\ \A k \in ClosingTimers(p) :
                       /\ tasks[k].ts = p + cfg.opening_duration
                       /\ tasks[k].products = get_available_products(p)
    /\ \A i \in 1..Len(history) :
          Cleared(i) => \E j \in 1..i : Opened(j) /\ history[j].open = history[i].open
    /\ Cardinality(OpeningTasks) <= 1
    /\ \A k \in OpeningTasks :
          tasks[k].pc = "armed" =>
             \/ /\ \A i \in 1..Len(history) : ~OpeningFired(i)
                /\ tasks[k].ts = cfg.dtstart
             \/ \E i \in 1..Len(history) :
                   /\ Opened(i)
                   /\ \A j \in 1..Len(history) : OpeningFired(j) => j <= i
                   /\ tasks[k].ts = history[i].open + cfg.interval

\* two periods were opened and cleared, and the next opening is armed
C7_Witness ==
    /\ \E i, j \in 1..Len(history) :
          /\ history[i].ev = "cleared_done" /\ history[j].ev = "cleared_done"
          /\ history[i].open < history[j].open
    /\ \E k \in OpeningTasks : tasks[k].pc = "armed"

\* the pass of the period opened at p began at p + open-duration
ClearedOnTime(p) ==
    \E i \in 1..Len(history) :
       Cleared(i) /\ history[i].open = p /\ history[i].at = p + cfg.opening_duration
OpenedAt(p) == \E i \in 1..Len(history) : Opened(i) /\ history[i].open = p

\* a step keeps every armed closing timer, unless it is the step that fires it
ClosingTimersKept ==
    \A k \in 1..Len(tasks) :
       (tasks[k].kind = "clear_market" /\ tasks[k].pc = "armed")
           => \/ \E n \in 1..Len(tasks') : tasks'[n] = tasks[k]
              \/ /\ now = tasks[k].ts
                 /\ Len(history') > Len(history)
                 /\ history'[Len(history) + 1].ev = "cleared"
                 /\ history'[Len(history) + 1].open = PeriodOf(tasks[k].products)

\* C8: no step cancels or replaces an armed closing timer, and a period that
\* opened (with its closing instant within the horizon of the clock) is
\* eventually cleared, the pass beginning at opening + open-duration.
C8_OpenedIsCleared ==
    /\ [][ClosingTimersKept]_vars
    /\ \A p \in 0..MaxTime :
          (OpenedAt(p) /\ p + cfg.opening_duration <= MaxTime) ~> ClearedOnTime(p)

\* a period was cleared on time though no message ever arrived
C8_Witness ==
    /\ msgs = 0 /\ registered_agents = <<>>
    /\ \E p \in 0..MaxTime : OpenedAt(p) /\ ClearedOnTime(p) /\ PassDone(p)

OpeningNotices(p) ==
    { n \in 1..Len(sent) : sent[n].context = "opening" /\ sent[n].start = p }

\* C9: an opening is suppressed exactly when its closing instant is later than
\* the rule's end bound; a suppressed opening has no opening notice, no
\* closing timer and no clearing pass.
C9_SuppressedOpening ==
    \A i \in 1..Len(history) :
       OpeningFired(i) =>
          LET p == history[i].open
              late == cfg.until # NoUntil /\ p + cfg.opening_duration > cfg.until
          IN  /\ IsSuppressed(i) <=> late
              /\ IsSuppressed(i) =>
                    /\ OpeningNotices(p) = {}
                    /\ \A k \in 1..Len(tasks) :
                          tasks[k].kind = "clear_market" => PeriodOf(tasks[k].products) # p
                    /\ ClearedEvents(p) = {}

\* an opening was suppressed with a participant registered, after a period
\* whose closing instant is the end bound itself was opened
C9_Witness ==
    \E i, j \in 1..Len(history) :
       /\ IsSuppressed(i) /\ history[i].nreg > 0
       /\ Opened(j) /\ history[j].open + cfg.opening_duration = cfg.until

\* no timer of the lifecycle is armed and no coroutine is under way
Terminal ==
    /\ phase = "running"
    /\ \A k \in 1..Len(tasks) : tasks[k].kind = "instant_message"

Notices ==
    { n \in 1..Len(sent) : sent[n].context \in {"opening", "clearing", "write_results"} }

\* the latest opening has no successor in the rule and opening() has ended
LastOpeningEnded ==
    \E i \in 1..Len(history) :
       /\ Opened(i)
       /\ \A j \in 1..Len(history) : OpeningFired(j) => j <= i
       /\ cfg.until # NoUntil /\ history[i].open + cfg.interval > cfg.until
       /\ ~OpeningUnderWay(history[i].open)

\* C10: after an opening that has no successor no opening timer is armed,
\* while its clearing still runs (C8); once no timer is left the role stays
\* so and sends no opening notice, clearing notice or sink message; a market
\* whose rule has an end bound gets there.
C10_TerminalAbsorbing ==
    /\ [](LastOpeningEnded => OpeningTasks = {})
    /\ [][Terminal => (Terminal' /\ Notices' = Notices)]_vars
    /\ \A p \in 0..MaxTime : (OpenedAt(p) /\ cfg.until # NoUntil) ~> PassDone(p)
    /\ (phase = "running" /\ cfg.until # NoUntil) ~> Terminal

\* the role is terminal after a last opening that after() found no successor
\* for, its pass done, and a message arrived since
C10_Witness ==
    /\ Terminal /\ LastOpeningEnded
    /\ \E i \in 1..Len(history) : Opened(i) /\ PassDone(history[i].open)
    /\ msgs > 0

----------------------------------------------------------------------------
\* Setup.

\* the rule has no occurrence at or after instant t
Exhausted(t) ==
    /\ cfg.until # NoUntil
    /\ ~\E n \in 0..(MaxTime + 1) :
          LET occ == cfg.dtstart + n * cfg.interval
          IN  occ >= t /\ occ <= cfg.until

\* C11: when the rule has no occurrence at or after the instant of setup,
\* setup() completes without raising: the role runs, with no opening timer
\* armed and no notice sent.
C11_SetupExhaustion ==
    (phase # "constructed" /\ Exhausted(0))
        => (phase = "running" /\ OpeningTasks = {} /\ sent = <<>>)

----------------------------------------------------------------------------
\* Interleaving of the coroutines with the other events.

\* periods whose clearing pass has invoked the matching function and has not
\* yet sent its last message
PassesUnderWay ==
    { PeriodOf(tasks[k].products) :
        k \in { n \in 1..Len(tasks) : tasks[n].kind = "clear_market" /\ tasks[n].pc # "armed" } }

\* the step is one of the pass of period p: it sends a clearing notice or a
\* sink message of p, or ends the pass
StepOfPass(p) ==
    /\ msgs' = msgs
    /\ registered_agents' = registered_agents
    /\ all_orders' = all_orders
    /\ \A n \in (Len(sent) + 1)..Len(sent') :
          sent'[n].context \in {"clearing", "write_results"} /\ sent'[n].period = p
    /\ \/ history' = history
       \/ history' = Append(history, [history'[Len(history')] EXCEPT
                                         !.ev = "cleared_done", !.open = p])

\* C12: a clearing pass is atomic: from the invocation of the matching
\* function to the last message of the pass no bid, registration or other
\* timer of the market is processed.
C12_PassAtomic ==
    [][\A p \in PassesUnderWay : StepOfPass(p)]_vars

\* opening() of period p has sent its notice to agent
Notified(agent, p) ==
    \E n \in 1..Len(sent) :
       sent[n].context = "opening" /\ sent[n].start = p /\ sent[n].to = agent

\* a participant, registered when period p opened, has not been sent the
\* opening notice of p
NoticesPending(p) ==
    \E e \in 1..Len(history) :
       /\ Opened(e) /\ history[e].open = p
       /\ \E n \in 1..history[e].nreg : ~Notified(registered_agents[n], p)

\* C13: when handle_orderbook processes a bid of a participant that was sent
\* the opening notice of a period, the opening notice of that period has
\* been sent to every participant registered when the period opened.
C13_NoticesBeforeBids ==
    [][\A sender \in Senders, orderbook \in SessionBatches, p \in 0..MaxTime :
          (handle_orderbook(sender, orderbook) /\ Notified(sender, p))
              => ~NoticesPending(p)]_vars

----------------------------------------------------------------------------
\* Bids and the lifecycle.

\* C14: the book a clearing pass presents to the matching function holds only
\* bids the role received in that pass's period: none received at an instant
\* before the opening instant of the period, be it while the market was
\* closed or during an earlier period.
C14_OnlyBidsOfThePeriod ==
    \A i \in 1..Len(history) :
       Cleared(i) =>
          \A n \in 1..Len(history[i].book) :
             /\ history[i].book[n].at >= history[i].open
             /\ history[i].book[n].at <= history[i].open + cfg.opening_duration

\* a simple bid within the limits of a market without ticks
WithinLimits(order) ==
    /\ order.bid_type = "SB"
    /\ order.price.k = "int" /\ order.volume.k = "int"
    /\ order.price.v >= cfg.minimum_bid_price /\ order.price.v <= cfg.maximum_bid_price
    /\ Abs(order.volume.v[1]) <= cfg.maximum_bid_volume

\* book is old followed by the orders of orderbook, stamped with sender
AppendedTo(book, old, orderbook, sender) ==
    /\ Len(book) = Len(old) + Len(orderbook)
    /\ \A n \in 1..Len(old) : book[n] = old[n]
    /\ \A n \in 1..Len(orderbook) :
          /\ book[Len(old) + n].price = orderbook[n].price
          /\ book[Len(old) + n].volume = orderbook[n].volume
          /\ book[Len(old) + n].agent_id = sender

\* C15: whatever the lifecycle state, a bid message of a registered
\* participant is processed by handle_orderbook, and when all its orders are
\* valid they are appended to the resting book.
C15_BidsAtAnyTime ==
    [][/\ \A sender \in Senders :
             (/\ msgs' = msgs + 1
              /\ inbound'.kind = "orderbook" /\ inbound'.sender = sender
              /\ sender \in Range(registered_agents))
                 => \E orderbook \in SessionBatches : handle_orderbook(sender, orderbook)
       /\ \A sender \in Senders, orderbook \in SessionBatches :
             (/\ handle_orderbook(sender, orderbook)
              /\ \A n \in 1..Len(orderbook) : WithinLimits(orderbook[n]))
                 => AppendedTo(all_orders', all_orders, orderbook, sender)]_vars

\* a pass has cleared (and the matching function emptied) a book that held a
\* bid received before the first opening and one received in the period, and
\* a bid received after that rests in the book
C15_Witness ==
    /\ cfg.mechanism_clears
    /\ \E i \in 1..Len(history) :
          /\ Cleared(i) /\ PassDone(history[i].open)
          /\ \E n, m \in 1..Len(history[i].book) :
                /\ history[i].book[n].at < cfg.dtstart
                /\ history[i].book[m].at >= history[i].open
          /\ \E n \in 1..Len(all_orders) : all_orders[n].at >= history[i].at

----------------------------------------------------------------------------
\* Rejections.

\* Rejection notices, sent or scheduled, whoever they are addressed to
Rejections ==
    Cardinality({ i \in 1..Len(sent) : sent[i].context = "submit_bids" })
    + Cardinality({ k \in 1..Len(tasks) :
                      tasks[k].kind = "instant_message" /\ tasks[k].msg.context = "submit_bids" })

\* the step is handle_orderbook processing a bid message
BidHandled ==
    /\ msgs' = msgs + 1
    /\ inbound'.kind = "orderbook"
    /\ inbound'.sender \in Range(registered_agents)

Timers == SelectSeq(tasks, LAMBDA t : t.kind # "instant_message")

\* C17: a bid message that fails validation leaves every order that was
\* resting, whoever submitted it, unchanged and in its position, and leaves
\* the registered set and the timers unchanged.
C17_FailureFrame ==
    [][\A sender \in Senders :
          (BidHandled /\ inbound'.sender = sender /\ ~AllPass(sender, inbound'.orderbook))
             => /\ Len(all_orders') >= Len(all_orders)
                /\ \A n \in 1..Len(all_orders) : all_orders'[n] = all_orders[n]
                /\ registered_agents' = registered_agents
                /\ Timers' = Timers]_vars

\* a bid message has just failed while another submitter's order rests and
\* a timer is armed
C17_Witness ==
    /\ inbound.kind = "orderbook"
    /\ ~AllPass(inbound.sender, inbound.orderbook)
    /\ \E k \in 1..Len(tasks) : IsRejection(tasks[k].msg, inbound.sender)
    /\ \E n \in 1..Len(all_orders) : all_orders[n].agent_id # inbound.sender
    /\ Timers # <<>>

----------------------------------------------------------------------------
\* The messages of a clearing pass.

\* the clearing notices, as positions in sent
AllClearingNotices == { n \in 1..Len(sent) : sent[n].context = "clearing" }

\* C18: every order in the orderbook and in the rejected list of a clearing
\* notice is an order of the participant the notice is sent to.
C18_OwnOrdersOnly ==
    \A n \in AllClearingNotices :
       /\ \A i \in 1..Len(sent[n].orderbook) : sent[n].orderbook[i].agent_id = sent[n].to
       /\ \A i \in 1..Len(sent[n].rejected) : sent[n].rejected[i].agent_id = sent[n].to

\* one pass has sent notices to two participants: to one an accepted order,
\* to the other a rejected one
C18_Witness ==
    \E n, m \in AllClearingNotices :
       /\ sent[n].period = sent[m].period
       /\ sent[n].to # sent[m].to
       /\ sent[n].orderbook # <<>>
       /\ sent[m].rejected # <<>>

\* the clearing notices of the pass of period p sent to agent
NoticesOf(p, agent) ==
    { n \in AllClearingNotices : sent[n].period = p /\ sent[n].to = agent }
\* the sink messages of a type sent by the pass of period p
SinkMessages(p, type) ==
    { n \in 1..Len(sent) :
        sent[n].context = "write_results" /\ sent[n].type = type /\ sent[n].period = p }

HasOrderIn(book, agent) == \E n \in 1..Len(book) : book[n].agent_id = agent

\* C19: a completed pass whose accepted book is empty has sent every
\* participant registered at the pass a clearing notice, with an empty
\* orderbook, and has sent the sink messages when the sink is configured; a
\* completed pass has sent a participant that has no accepted and no rejected
\* order a notice, with both lists empty.
C19_EmptyResultContinues ==
    \A i \in 1..Len(history) :
       (Cleared(i) /\ PassDone(history[i].open)) =>
          LET p == history[i].open
          IN  /\ history[i].accepted = <<>> =>
                    /\ \A n \in 1..history[i].nreg :
                          /\ NoticesOf(p, registered_agents[n]) # {}
                          /\ \A m \in NoticesOf(p, registered_agents[n]) :
                                sent[m].orderbook = <<>>
                    /\ (cfg.output_agent_id /\ cfg.output_agent_addr) =>
                          /\ SinkMessages(p, "store_order_book") # {}
                          /\ SinkMessages(p, "store_market_results") # {}
              /\ \A n \in 1..history[i].nreg :
                    LET agent == registered_agents[n]
                    IN  (~HasOrderIn(history[i].accepted, agent)
                         /\ ~HasOrderIn(history[i].rejected, agent))
                            => /\ NoticesOf(p, agent) # {}
                               /\ \A m \in NoticesOf(p, agent) :
                                     sent[m].orderbook = <<>> /\ sent[m].rejected = <<>>

\* a pass with an empty accepted book and a rejected order is completed, two
\* participants being registered, one without any order, the sink configured
C19_Witness ==
    \E i \in 1..Len(history) :
       /\ Cleared(i) /\ PassDone(history[i].open)
       /\ history[i].accepted = <<>> /\ history[i].rejected # <<>>
       /\ history[i].nreg >= 2
       /\ \E n \in 1..history[i].nreg :
             ~HasOrderIn(history[i].rejected, registered_agents[n])
       /\ SinkMessages(history[i].open, "store_market_results") # {}

\* C20: a pass sends the sink at most one store_order_book and at most one
\* store_market_results message, the first before the second and both after
\* every clearing notice of the pass; a completed pass has sent exactly one
\* of each when the sink id and the sink address are both configured; when
\* they are not both configured no sink message is sent at all.
C20_SinkMessages ==
    /\ ~(cfg.output_agent_id /\ cfg.output_agent_addr)
          => \A n \in 1..Len(sent) : sent[n].context # "write_results"
    /\ \A p \in 0..MaxTime :
          LET books == SinkMessages(p, "store_order_book")
              results == SinkMessages(p, "store_market_results")
          IN  /\ Cardinality(books) <= 1 /\ Cardinality(results) <= 1
              /\ \A r \in results : \E b \in books : b < r
              /\ \A m \in books \cup results :
                    \A n \in AllClearingNotices : sent[n].period = p => n < m
              /\ (PassDone(p) /\ cfg.output_agent_id /\ cfg.output_agent_addr)
                    => Cardinality(books) = 1 /\ Cardinality(results) = 1

\* a completed pass has sent two clearing notices and then the two sink
\* messages
C20_Witness ==
    \E p \in 0..MaxTime :
       /\ PassDone(p)
       /\ Cardinality({ n \in AllClearingNotices : sent[n].period = p }) >= 2
       /\ SinkMessages(p, "store_order_book") # {}
       /\ SinkMessages(p, "store_market_results") # {}


-----------------------------------------------------------------------------
\* C21: a registration message is handled in every state of the lifecycle; it
\* appends the sender's (address, id) pair at the end of the registered list
\* exactly when the eligibility predicate holds for the sender's id, also when
\* the pair is already in the list, and leaves the list unchanged otherwise;
\* no other step changes the list, so every earlier value of the list is a
\* prefix of every later value.
RegistrationHandled ==
    /\ msgs' = msgs + 1
    /\ inbound'.kind = "registration"

C21_RegisteredAppendOnly ==
    [][ /\ Len(registered_agents) <= Len(registered_agents')
        /\ registered_agents =
               SubSeq(registered_agents', 1, Len(registered_agents))
        /\ \A sender \in Senders :
               (RegistrationHandled /\ inbound'.sender = sender) =>
                   registered_agents' =
                       IF sender[2] \in cfg.eligible
                       THEN Append(registered_agents, sender)
                       ELSE registered_agents
        /\ ~RegistrationHandled => registered_agents' = registered_agents
      ]_vars

\* a participant is registered a second time after the market has opened and
\* cleared a period with its first registration
C21_Witness ==
    /\ Len(registered_agents) = 2
    /\ registered_agents[1] = registered_agents[2]
    /\ inbound.kind = "registration"
    /\ \E i \in 1..Len(history) : history[i].ev = "cleared_done" /\ history[i].nreg = 1

-----------------------------------------------------------------------------
\* the receivers of the opening notices of the period opened at p, in the
\* order the notices were sent
OpeningReceivers(p) ==
    LET notices == SelectSeq(sent, LAMBDA m : m.context = "opening" /\ m.start = p)
    IN  [ n \in 1..Len(notices) |-> notices[n].to ]

\* C22: at each opening that is not suppressed the opening notice goes to
\* exactly the participants registered at the moment of the opening, in
\* registration order, and the closing timer and the next-opening timer are
\* armed only after the notices; every notice has stop = start + open-duration
\* and the closing timer is armed for that instant with the product list of
\* the notice.
C22_NoticeToRegisteredAtOpening ==
    \A e \in 1..Len(history) :
       Opened(e) =>
          LET p == history[e].open
              registered == SubSeq(registered_agents, 1, history[e].nreg)
              to == OpeningReceivers(p)
          IN  /\ IF OpeningUnderWay(p)
                 THEN /\ Len(to) <= Len(registered)
                      /\ to = SubSeq(registered, 1, Len(to))
                      /\ ClosingTimers(p) = {}
                      /\ ClearedEvents(p) = {}
                      /\ \A k \in OpeningTasks : tasks[k].ts <= p
                 ELSE to = registered
              /\ \A n \in OpeningNotices(p) :
                    /\ sent[n].stop = sent[n].start + cfg.opening_duration
                    /\ \A k \in ClosingTimers(p) :
                          /\ tasks[k].ts = sent[n].stop
                          /\ tasks[k].products = sent[n].products

-----------------------------------------------------------------------------
\* a query message is delivered to its handler
QueryHandled ==
    /\ msgs' = msgs + 1
    /\ inbound'.kind = "get_unmatched"
    /\ cfg.supports_get_unmatched

\* the order has the three keys and they equal the requested ones
HasKey(o, key) ==
    /\ o.start_time # NoInstant /\ o.start_time = key.start_time
    /\ o.end_time # NoInstant /\ o.end_time = key.end_time
    /\ o.only_hours = key.only_hours

\* the resting orders a query is to be answered with
Requested(order) ==
    IF order = <<>> THEN all_orders
    ELSE SelectSeq(all_orders, LAMBDA o : HasKey(o, order[1]))

\* the replies to queries that are scheduled and not sent yet
PendingReplies(ts) ==
    SelectSeq(ts, LAMBDA t : t.msg.context = "get_unmatched")

\* C23: handle_get_unmatched replies to the requester with exactly the resting
\* orders whose (start_time, end_time, only_hours) equal the requested key, in
\* book order, and with the full resting book when the request has no filter:
\* every handled query schedules one reply, to its sender, with these orders.
C23_QueryAnswered ==
    [][ \A sender \in Senders, order \in BookFilters :
           (QueryHandled /\ inbound'.sender = sender /\ inbound'.order = order) =>
               /\ Len(tasks') = Len(tasks) + 1
               /\ SubSeq(tasks', 1, Len(tasks)) = tasks
               /\ LET reply == tasks'[Len(tasks')]
                  IN  /\ reply.kind = "instant_message"
                      /\ reply.msg.context = "get_unmatched"
                      /\ reply.msg.to = sender
                      /\ reply.msg.available_orders = Requested(order)
      ]_vars

\* a query message is delivered to the role, subscribed or not
QueryDelivered ==
    /\ msgs' = msgs + 1
    /\ inbound'.kind = "get_unmatched"

\* C24: the query has no side effects: the step that handles it leaves the
\* resting book, the registered set and the armed timers unchanged and sends
\* nothing itself; it is answered only on a market configured with
\* supports_get_unmatched, where at most the reply is scheduled; on a market
\* without the flag the query schedules no reply and changes no state.
C24_QueryFrame ==
    [][ QueryDelivered =>
           /\ all_orders' = all_orders
           /\ registered_agents' = registered_agents
           /\ Timers' = Timers
           /\ sent' = sent
           /\ now' = now /\ phase' = phase /\ history' = history
           /\ IF cfg.supports_get_unmatched
              THEN \/ tasks' = tasks
                   \/ /\ Len(tasks') = Len(tasks) + 1
                      /\ SubSeq(tasks', 1, Len(tasks)) = tasks
                      /\ tasks'[Len(tasks')].msg.context = "get_unmatched"
              ELSE tasks' = tasks
      ]_vars

\* a query with a key has just been answered on a market with resting orders,
\* a registered participant and an armed timer
C24_Witness ==
    /\ cfg.supports_get_unmatched
    /\ inbound.kind = "get_unmatched" /\ inbound.order # <<>>
    /\ all_orders # <<>> /\ registered_agents # <<>> /\ Timers # <<>>
    /\ Len(PendingReplies(tasks)) = 1
    /\ PendingReplies(tasks)[1].msg.to = inbound.sender
    /\ PendingReplies(tasks)[1].msg.available_orders = all_orders

-----------------------------------------------------------------------------
\* C25: every resting order carries as agent_id the (address, id) of the
\* sender of the message that delivered it, whatever agent_id the submitter
\* wrote in the order, and has an only_hours field, which is null when the
\* submitter supplied none and the supplied value otherwise.
C25_StampedOnReceipt ==
    [][ /\ \A sender \in Senders :
              (BidHandled /\ inbound'.sender = sender) =>
                 \A n \in (Len(all_orders) + 1)..Len(all_orders') :
                    LET order == all_orders'[n]
                        raw == inbound'.orderbook[n - Len(all_orders)]
                    IN  /\ order.agent_id = sender
                        /\ order.only_hours # "absent"
                        /\ raw.only_hours \in {"absent", None} => order.only_hours = None
                        /\ raw.only_hours = "hours" => order.only_hours = "hours"
        /\ \A n \in 1..Len(all_orders') :
              /\ all_orders'[n].agent_id \in Range(registered_agents')
              /\ all_orders'[n].only_hours # "absent"
      ]_vars

\* a message of (h1, u1) has delivered an order without only_hours and an
\* order that names another participant as its agent_id
C25_Witness ==
    /\ inbound.kind = "orderbook"
    /\ inbound.sender = <<"h1", "u1">>
    /\ inbound.orderbook = <<Order10, Order12>>
    /\ Len(all_orders) = 2
    /\ all_orders[1].only_hours = None /\ all_orders[1].agent_id = <<"h1", "u1">>
    /\ all_orders[2].only_hours = "hours" /\ all_orders[2].agent_id = <<"h1", "u1">>

-----------------------------------------------------------------------------
\* the field of the order is present and its value is not empty
FieldFilled(order, field) == field = "link" /\ order.link = "set"

\* C26: every resting order has every field named in the market's
\* additional_fields present and non-empty: an order in which such a field is
\* missing or empty is rejected and never rests.
C26_AdditionalFieldsFilled ==
    \A n \in 1..Len(all_orders) :
       \A field \in cfg.additional_fields : FieldFilled(all_orders[n], field)

-----------------------------------------------------------------------------
\* the order satisfies every check of the market other than the one on its
\* bid type: price and volume within the bounds and of the shape its bid type
\* asks for, representable in ticks, additional fields present
BoundsMet(order) ==
    /\ PriceInBounds(cfg, order)
    /\ order.volume.k # "missing"
    /\ \A i \in 1..Len(order.volume.v) : Abs(order.volume.v[i]) <= MaxVolume(cfg)
    /\ order.bid_type \in {"absent", None, "SB"} => order.volume.k \in {"int", "float"}
    /\ order.bid_type = "BB" => order.volume.k = "dict"
    /\ TickRepresentable(cfg, order)
    /\ FieldsPresent(cfg, order)

\* C27: an order is rejected for its bid type exactly when the bid type is
\* none of SB, BB and LB: a linked bid (LB) that satisfies the price and volume
\* bounds is accepted like a simple or a block bid, and an absent or null bid
\* type is treated as simple.
C27_LinkedBidsAccepted ==
    [][ \A sender \in Senders :
           ( /\ BidHandled /\ inbound'.sender = sender
             /\ Len(inbound'.orderbook) = 1
             /\ BoundsMet(inbound'.orderbook[1]) ) =>
               LET order == inbound'.orderbook[1]
               IN  IF order.bid_type \in {"absent", None, "SB", "BB", "LB"}
                   THEN /\ Len(all_orders') = Len(all_orders) + 1
                        /\ all_orders'[Len(all_orders')].price = order.price
                        /\ all_orders'[Len(all_orders')].bid_type =
                               (IF order.bid_type = None THEN "SB" ELSE order.bid_type)
                        /\ Rejections' = Rejections
                   ELSE /\ all_orders' = all_orders
                        /\ Rejections' = Rejections + 1
      ]_vars

-----------------------------------------------------------------------------
\* a simple bid with a number for its price and for its volume, integers where
\* the market has a tick, and with the additional fields of the market
SimpleNumeric(order) ==
    /\ order.bid_type \in {"absent", None, "SB"}
    /\ order.price.k \in {"int", "float"} /\ order.volume.k \in {"int", "float"}
    /\ TickRepresentable(cfg, order)
    /\ FieldsPresent(cfg, order)

\* C28: with a price tick t the submitted price is a count of ticks, compared
\* against floor(max / t) and ceil(min / t), so that an integer price p passes
\* exactly when min <= p * t <= max; a volume is compared likewise with
\* floor(max volume / volume tick); without a tick the raw bounds are used
\* and a price equal to a bound is accepted.
C28_TickCountsWithinBounds ==
    [][ \A sender \in Senders :
           ( /\ BidHandled /\ inbound'.sender = sender
             /\ Len(inbound'.orderbook) = 1
             /\ SimpleNumeric(inbound'.orderbook[1]) ) =>
               LET order == inbound'.orderbook[1]
                   passes == /\ cfg.minimum_bid_price <= PriceUnits(order)
                             /\ PriceUnits(order) <= cfg.maximum_bid_price
                             /\ VolumeUnits(order.volume.v[1]) <= cfg.maximum_bid_volume
               IN  IF passes
                   THEN /\ Len(all_orders') = Len(all_orders) + 1
                        /\ all_orders'[Len(all_orders')].price = order.price
                        /\ all_orders'[Len(all_orders')].volume = order.volume
                   ELSE all_orders' = all_orders
      ]_vars

\* on a market whose maximum price is no multiple of its price tick, the book
\* holds an order at the highest tick count and at the highest volume count:
\* one more tick would exceed the maximum
C28_Witness ==
    /\ cfg.price_tick # 0 /\ cfg.volume_tick # 0
    /\ inbound.kind = "orderbook"
    /\ \E n \in 1..Len(all_orders) :
          /\ all_orders[n].price.v * cfg.price_tick < cfg.maximum_bid_price
          /\ (all_orders[n].price.v + 1) * cfg.price_tick > cfg.maximum_bid_price
          /\ all_orders[n].volume.k = "int"
          /\ (Abs(all_orders[n].volume.v[1]) + 1) * cfg.volume_tick > cfg.maximum_bid_volume

-----------------------------------------------------------------------------
\* a bid message of one order is handled on a market with a price tick
TickBidHandled(sender) ==
    /\ BidHandled /\ inbound'.sender = sender
    /\ Len(inbound'.orderbook) = 1
    /\ cfg.price_tick # 0
\* the message is refused: the book is unchanged and one Rejection is scheduled
Refused ==
    /\ all_orders' = all_orders
    /\ Rejections' = Rejections + 1

\* C29 (as stated): with a price tick, every submitted price that is not a
\* multiple of the tick is rejected, the book stays unchanged and the submitter
\* gets exactly one Rejection, so that an accepted price is always an exact
\* multiple of the tick.
C29_NonMultiplesRejected ==
    [][ \A sender \in Senders :
           TickBidHandled(sender) =>
              LET order == inbound'.orderbook[1]
              IN  IF order.price.v % cfg.price_tick # 0
                  THEN Refused
                  ELSE \A n \in 1..Len(all_orders') :
                          all_orders'[n].price.v % cfg.price_tick = 0
      ]_vars

\* C29 (amended): with a price tick the submitted price is a count of ticks:
\* handle_orderbook either rejects the message or rests an integer price p
\* with min <= p * tick <= max, whose value p * tick is an exact multiple of
\* the tick, whether or not p itself is one; on the market with tick 5, minimum
\* 0 and maximum 100 a price of 52 is rejected, being above 100 / 5 = 20 ticks
\* (book unchanged, exactly one Rejection), and a price of 12 is accepted.
C29_TickCountsOrRejected ==
    [][ \A sender \in Senders :
           TickBidHandled(sender) =>
              LET order == inbound'.orderbook[1]
                  within == /\ order.price.k = "int"
                            /\ cfg.minimum_bid_price <= order.price.v * cfg.price_tick
                            /\ order.price.v * cfg.price_tick <= cfg.maximum_bid_price
              IN  /\ Refused \/ ( /\ within
                                  /\ all_orders' = Append(all_orders, all_orders'[Len(all_orders')])
                                  /\ all_orders'[Len(all_orders')].price = order.price
                                  /\ Rejections' = Rejections )
                  /\ ~within => Refused
                  /\ (within /\ SimpleNumeric(order)
                        /\ Abs(order.volume.v[1]) <= MaxVolume(cfg)) => ~Refused
      ]_vars

\* on the market of the scenario a price of 12 rests in the book and a message
\* with a price of 52 has just been rejected
C29_Witness ==
    /\ cfg.price_tick = 5 /\ cfg.minimum_bid_price = 0 /\ cfg.maximum_bid_price = 100
    /\ inbound.kind = "orderbook" /\ inbound.orderbook = <<Order52>>
    /\ Len(all_orders) = 1 /\ all_orders[1].price.v = 12
    /\ \E k \in 1..Len(tasks) : IsRejection(tasks[k].msg, inbound.sender)

-----------------------------------------------------------------------------
\* the order with identity a arrived before the order with identity b: in an
\* earlier message, or earlier in the same message
ArrivedBefore(a, b) == a[1] < b[1] \/ (a[1] = b[1] /\ a[2] < b[2])

\* C30: the resting book preserves arrival order.  The orders of a valid
\* message are appended at the end of the book in the order they have in the
\* message, so an earlier message's orders precede a later message's; handling
\* a message, valid or not, never reorders or removes the orders that rest.
C30_ArrivalOrder ==
    [][ /\ \A sender \in Senders :
              (BidHandled /\ inbound'.sender = sender) =>
                 LET orderbook == inbound'.orderbook
                 IN  /\ Len(all_orders) <= Len(all_orders')
                     /\ SubSeq(all_orders', 1, Len(all_orders)) = all_orders
                     /\ AllPass(sender, orderbook) =>
                           /\ Len(all_orders') = Len(all_orders) + Len(orderbook)
                           /\ \A n \in 1..Len(orderbook) :
                                 LET order == all_orders'[Len(all_orders) + n]
                                 IN  /\ order.id = <<msgs', n>>
                                     /\ order.price = orderbook[n].price
                                     /\ order.start_time = orderbook[n].start_time
                                     /\ order.link = orderbook[n].link
        /\ \A n, m \in 1..Len(all_orders') :
              n < m => ArrivedBefore(all_orders'[n].id, all_orders'[m].id)
      ]_vars

\* the book holds the two orders of one message followed by the order of a
\* later message
C30_Witness ==
    /\ Len(all_orders) = 3
    /\ all_orders[1].id[1] = all_orders[2].id[1]
    /\ all_orders[1].price # all_orders[2].price
    /\ all_orders[2].id[1] < all_orders[3].id[1]
    /\ inbound.kind = "orderbook" /\ Len(inbound.orderbook) = 1

-----------------------------------------------------------------------------
\* the order was received while the period opened at p was open
BidOfPeriod(order, p) == order.at >= p /\ order.at <= p + cfg.opening_duration

\* the clearing notice sent[n] returns the order as accepted and nothing as
\* rejected
ReturnsAccepted(n, order) ==
    /\ \E k \in 1..Len(sent[n].orderbook) : sent[n].orderbook[k] = order
    /\ sent[n].rejected = <<>>

\* C31: end to end, a valid simple bid that a registered participant submits
\* while a period is open and that the matching function accepts (rejecting
\* none of that participant's orders) is returned to the participant in
\* exactly one clearing notice of that period, with the order in orderbook
\* and rejected empty: this holds of every completed pass.
C31_BidReturnedOnce ==
    \A i \in 1..Len(history) :
       (Cleared(i) /\ PassDone(history[i].open)) =>
          \A k \in 1..Len(history[i].accepted) :
             LET order == history[i].accepted[k]
                 p == history[i].open
             IN  (/\ BidOfPeriod(order, p)
                  /\ ~HasOrderIn(history[i].rejected, order.agent_id)) =>
                     /\ Cardinality(NoticesOf(p, order.agent_id)) = 1
                     /\ \A n \in NoticesOf(p, order.agent_id) : ReturnsAccepted(n, order)

-----------------------------------------------------------------------------
\* the closing timers that are armed: the periods that are open
ArmedClosingTimers ==
    { k \in 1..Len(tasks) : tasks[k].kind = "clear_market" /\ tasks[k].pc = "armed" }

\* C32: the lifecycle is strictly Closed -> Open -> Clearing -> Closed: at
\* most one closing timer is armed at any time, and when a period opens the
\* matching function has been invoked for every period opened before it,
\* whatever the recurrence interval and the open-duration.
C32_OnePeriodOpen ==
    /\ Cardinality(ArmedClosingTimers) <= 1
    /\ \A i, j \in 1..Len(history) :
          (Opened(i) /\ Opened(j) /\ i < j) =>
              \E c \in (i + 1)..(j - 1) : Cleared(c) /\ history[c].open = history[i].open

-----------------------------------------------------------------------------
\* C33: market instances are independent: a registration, bid or query
\* message whose market field differs from the name of the market is ignored
\* by it: the resting book and the registered set are unchanged and nothing is
\* scheduled or sent in reply.
C33_OtherMarketIgnored ==
    [][ \A sender \in Senders, kind \in MessageKinds :
           ( \/ message_for(OtherMarket, sender, kind, BookBatches, BookFilters)
             \/ (msgs' = msgs + 1 /\ inbound'.market # cfg.name) ) =>
               /\ all_orders' = all_orders
               /\ registered_agents' = registered_agents
               /\ tasks' = tasks
               /\ sent' = sent
      ]_vars

\* a registered participant with a resting order has sent a bid message that
\* names another market, on a market that answers queries
C33_Witness ==
    /\ inbound.market = OtherMarket
    /\ inbound.kind = "orderbook"
    /\ inbound.sender \in Range(registered_agents)
    /\ HasOrderIn(all_orders, inbound.sender)
    /\ cfg.supports_get_unmatched
    /\ Rejections = 0

-----------------------------------------------------------------------------
\* the Rejection notices that are scheduled and not handed to the transport yet
PendingRejections ==
    { k \in 1..Len(tasks) :
        tasks[k].kind = "instant_message" /\ tasks[k].msg.context = "submit_bids" }

\* C34: the Rejection notice of a failed bid message is sent within the step
\* of the failed validation, before the next message of the market is
\* processed: whenever the role handles a message, no Rejection of an earlier
\* message is still waiting to be sent.
C34_RejectionBeforeNextMessage ==
    [][ msgs' = msgs + 1 => PendingRejections = {} ]_vars

-----------------------------------------------------------------------------
\* the order is in the list of a sequence of orders
IsIn(order, book) == \E k \in 1..Len(book) : book[k] = order

\* C35: every order of the resting book has an agent_id that is in the
\* registered set; every order that the matching function of a completed pass
\* returned as accepted is in the orderbook of a clearing notice of that pass
\* to its submitter, and every order returned as rejected is in the rejected
\* list of such a notice: the per-submitter fan-out drops no order.
C35_FanOutComplete ==
    /\ \A n \in 1..Len(all_orders) : all_orders[n].agent_id \in Range(registered_agents)
    /\ \A i \in 1..Len(history) :
          (Cleared(i) /\ PassDone(history[i].open)) =>
             /\ \A k \in 1..Len(history[i].accepted) :
                   LET order == history[i].accepted[k]
                   IN  /\ order.agent_id \in Range(registered_agents)
                       /\ \E n \in NoticesOf(history[i].open, order.agent_id) :
                             IsIn(order, sent[n].orderbook)
             /\ \A k \in 1..Len(history[i].rejected) :
                   LET order == history[i].rejected[k]
                   IN  \E n \in NoticesOf(history[i].open, order.agent_id) :
                          IsIn(order, sent[n].rejected)

\* a completed pass whose matching function accepted two orders of one
\* participant, delivered by two messages, and rejected one of them as well
C35_Witness ==
    \E i \in 1..Len(history) :
       /\ Cleared(i) /\ PassDone(history[i].open)
       /\ Len(history[i].rejected) = 1
       /\ \E k, m \in 1..Len(history[i].accepted) :
             /\ history[i].accepted[k].id[1] < history[i].accepted[m].id[1]
             /\ history[i].accepted[k].agent_id = history[i].accepted[m].agent_id

-----------------------------------------------------------------------------
\* the number of participants registered when the period p opened
RegisteredAtOpening(p) ==
    LET opened == { i \in 1..Len(history) : Opened(i) /\ history[i].open = p }
    IN  history[CHOOSE i \in opened : TRUE].nreg

\* C36: the recipients of a clearing pass are the participants registered when
\* the pass runs, not those notified at the opening: a participant whose
\* registration is processed after the opening of a period and before its
\* clearing is sent the clearing notice of that period, with its own accepted
\* and rejected orders, also when it was sent no opening notice of the period.
C36_LateRegistrantNotified ==
    \A i \in 1..Len(history) :
       (Cleared(i) /\ PassDone(history[i].open)) =>
          LET p == history[i].open
          IN  \A n \in (RegisteredAtOpening(p) + 1)..history[i].nreg :
                 LET agent == registered_agents[n]
                 IN  /\ NoticesOf(p, agent) # {}
                     /\ \A m \in NoticesOf(p, agent) :
                           /\ sent[m].orderbook = BidsOf(history[i].accepted, agent)
                           /\ sent[m].rejected = BidsOf(history[i].rejected, agent)

\* a participant that registered after the opening of a period and was sent
\* no opening notice of it has been sent the clearing notice of the period,
\* with the order it submitted meanwhile
C36_Witness ==
    \E i \in 1..Len(history) :
       /\ Cleared(i) /\ PassDone(history[i].open)
       /\ RegisteredAtOpening(history[i].open) = 0
       /\ history[i].nreg = 1
       /\ \A m \in 1..Len(OpeningReceivers(history[i].open)) :
             OpeningReceivers(history[i].open)[m] # registered_agents[1]
       /\ \E m \in NoticesOf(history[i].open, registered_agents[1]) :
             sent[m].orderbook # <<>>

-----------------------------------------------------------------------------
\* a block bid with an integer price within the price bounds, integer
\* per-product volumes within the tick-adjusted volume bound, and the
\* additional fields of the market
BlockWithinBounds(order) ==
    /\ order.bid_type = "BB"
    /\ order.price.k = "int"
    /\ PriceInBounds(cfg, order)
    /\ order.volume.k = "dict"
    /\ \A i \in 1..Len(order.volume.v) : Abs(order.volume.v[i]) <= MaxVolume(cfg)
    /\ FieldsPresent(cfg, order)

\* C37: on a market with a volume tick, a block bid whose per-product volumes
\* are all integers within the tick-adjusted volume bound and whose price is
\* within the bounds is appended to the resting book, without a Rejection.
C37_BlockBidWithVolumeTick ==
    [][ \A sender \in Senders :
           ( /\ BidHandled /\ inbound'.sender = sender
             /\ cfg.volume_tick # 0
             /\ Len(inbound'.orderbook) = 1
             /\ BlockWithinBounds(inbound'.orderbook[1]) ) =>
               /\ Len(all_orders') = Len(all_orders) + 1
               /\ all_orders'[Len(all_orders')].volume = inbound'.orderbook[1].volume
               /\ Rejections' = Rejections
      ]_vars
====
